---- MODULE Spec2Model ----
(***************************************************************************)
(* ProfitPilot backend (src/backend/server.py): the automated mining       *)
(* scheduler, the accrual cycle and the API handlers that write the same   *)
(* ledger (users, tokens, transactions, mining_logs).                      *)
(*                                                                         *)
(* Money is counted in cents: 0.70 is 70, 2.0 is 200.  The cycle is        *)
(* modelled one store operation per step, and the send-balance and         *)
(* complete-task handlers as their read followed by their writes, so that  *)
(* the handlers interleave with the cycle's store operations; every store  *)
(* operation may raise, and a raising operation changes nothing in the     *)
(* store.                                                                  *)
(***************************************************************************)
EXTENDS Integers, Sequences, FiniteSets, TLC

\* ------------------------------------------------------------------ bounds
MaxCycles == 2          \* accrual cycles the scheduler starts
MaxBoosts == 1          \* admin boost-token calls
MaxBalanceCalls == 2    \* send-balance and complete-task calls, together
MaxPayments == 1        \* initialize-payment calls that store a transaction
MaxFaults == 2          \* store operations that raise
MaxBoostLevel == 10     \* highest boost level of a stored token at start-up

\* -------------------------------------------------------- program constants
base_earning == 70      \* MiningManager.base_earning = 0.70
MaxTokensPerUser == 5   \* "User already has maximum tokens (5)"
token_price == 500      \* initialize_payment: amount_usd = 5.0
boost_price == 300      \* initialize_payment: 3.0 * (2 ** boost_level)

UserIds == {"u1", "u2", "adm"}
StoreIds == {1, 2, 3}    \* the token ids of the stores explored
LimitIds == 1..6         \* the token ids of the store of InitLimit
InitTokenIds == {1, 2}   \* the tokens in the store at start-up
InitBoostLevels == {0, 1}
GiftAmounts == {100}    \* AdminSendBalance.amount of the calls explored
TaskRewards == {50}     \* reward of the task in the store

\* ----------------------------------------------------------------- helpers
RECURSIVE Pow2(_)
Pow2(n) == IF n = 0 THEN 1 ELSE 2 * Pow2(n - 1)

RECURSIVE SumAmounts(_)
SumAmounts(h) == IF h = <<>> THEN 0 ELSE h[1].amount + SumAmounts(Tail(h))

RECURSIVE SumOver(_, _)
SumOver(S, f) ==
    IF S = {} THEN 0
    ELSE LET x == CHOOSE y \in S : TRUE IN f[x] + SumOver(S \ {x}, f)

RECURSIVE SortedSeq(_)
SortedSeq(S) ==
    IF S = {} THEN <<>>
    ELSE LET m == CHOOSE x \in S : \A y \in S : x <= y
         IN <<m>> \o SortedSeq(S \ {m})

\* ------------------------------------------------------------------- state
VARIABLES
    users,          \* users collection: user_id -> document
    tokens,         \* tokens collection: token_id -> document
    tasks,          \* the task document of the tasks collection
    transactions,   \* transactions collection, in insertion order
    notifications,  \* notifications collection: user_id -> documents inserted
    mining_logs,    \* mining_logs collection, in insertion order
    is_running,     \* MiningManager.is_running
    pc,             \* position of the mining_scheduler task
    cycles,         \* cycles started so far
    mining_stats,   \* local of process_mining_cycle
    tokens_list,    \* local `tokens` of process_mining_cycle
    idx,            \* position of the `for token in tokens` loop
    stopping,       \* the host has asked the application to shut down
    gift,           \* the admin_send_balance call in progress
    tc,             \* the complete_task call in progress
    calls,          \* API calls made so far, per handler
    faults,         \* store operations that have raised so far
    response,       \* the last response of register_user / verify_payment
    cyc,            \* history of the current cycle (observation only)
    applied,        \* sum of the increments issued to each user (observation)
    log_caught      \* per mining log: per-token exceptions of its cycle

\* the token ids of the store explored: those of the start-up state
TokenIds == DOMAIN tokens

vars == <<users, tokens, tasks, transactions, notifications, mining_logs,
          is_running, pc, cycles, mining_stats, tokens_list, idx, stopping,
          gift, tc, calls, faults, response, cyc, applied, log_caught>>

ledgerVars == <<users, tokens, tasks, transactions, notifications, mining_logs>>
cycleVars == <<is_running, pc, cycles, mining_stats, tokens_list, idx,
               stopping>>
apiLocals == <<gift, tc, calls>>
obsVars == <<cyc, applied, log_caught>>

\* --------------------------------------------------------------- documents
NoUser == [exists |-> FALSE, is_admin |-> FALSE, total_earnings |-> 0,
           referral_earnings |-> 0, tokens_owned |-> 0, boosts_used |-> 0]

\* register_user's user_doc
user_doc(is_admin) ==
    [exists |-> TRUE, is_admin |-> is_admin, total_earnings |-> 0,
     referral_earnings |-> 0, tokens_owned |-> 0, boosts_used |-> 0]

NoToken == [exists |-> FALSE, owner_id |-> "u1", boost_level |-> 0,
            total_earnings |-> 0, active |-> FALSE,
            mining_history |-> <<>>, boost_history |-> <<>>]

\* the token_doc every token-creating handler inserts
token_doc(owner_id) ==
    [exists |-> TRUE, owner_id |-> owner_id, boost_level |-> 0,
     total_earnings |-> 0, active |-> TRUE,
     mining_history |-> <<>>, boost_history |-> <<>>]

\* ------------------------------------------------------ the accrual engine
\* a slip: the level counted linearly instead of doubling
earning_linear(boost_level) == base_earning * (boost_level + 1)

\* earning = self.base_earning * (2 ** boost_level)
earning(boost_level) == base_earning * Pow2(boost_level)

\* users.find({"is_admin": True}, {"user_id": 1})
admin_user_ids(us) == {u \in UserIds : us[u].exists /\ us[u].is_admin}

\* a slip: the filter without the "$nin" clause
find_tokens_any_owner(tk, admins) ==
    {t \in TokenIds : tk[t].exists /\ tk[t].active}

\* tokens.find({"active": True, "owner_id": {"$nin": admin_user_ids}})
find_tokens(tk, admins) ==
    {t \in TokenIds : tk[t].exists /\ tk[t].active /\ tk[t].owner_id \notin admins}

\* the list of token documents the cycle iterates over
list_tokens(tk, us) ==
    LET ids == SortedSeq(find_tokens(tk, admin_user_ids(us)))
    IN [i \in 1..Len(ids) |->
           [token_id |-> ids[i], owner_id |-> tk[ids[i]].owner_id,
            boost_level |-> tk[ids[i]].boost_level]]

\* a slip: the update without the "$push" clause
token_update_one_no_push(tk, token_id, amount, boost_level) ==
    [tk EXCEPT ![token_id].total_earnings = @ + amount]

\* tokens.update_one({"token_id": ..}, {$inc total_earnings, $set last_mining,
\*                                       $push mining_history})
token_update_one(tk, token_id, amount, boost_level) ==
    [tk EXCEPT ![token_id].total_earnings = @ + amount,
               ![token_id].mining_history =
                   Append(@, [amount |-> amount, boost_level |-> boost_level])]

\* a slip: the credit also counted as a referral earning
inc_total_and_referral_earnings(us, user_id, amount) ==
    IF us[user_id].exists
    THEN [us EXCEPT ![user_id].total_earnings = @ + amount,
                    ![user_id].referral_earnings = @ + amount]
    ELSE us

\* users.update_one({"user_id": ..}, {"$inc": {"total_earnings": amount}})
inc_total_earnings(us, user_id, amount) ==
    IF us[user_id].exists
    THEN [us EXCEPT ![user_id].total_earnings = @ + amount]
    ELSE us

\* result.modified_count of that update
modified_count(us, user_id) == IF us[user_id].exists THEN 1 ELSE 0

\* a slip: the insert outside the try/except
create_notification_raising(ns, user_id, ok) ==
    [notifications |-> IF ok THEN [ns EXCEPT ![user_id] = @ + 1] ELSE ns,
     raised |-> ~ok]

\* NotificationManager.create_notification: the insert is inside try/except
create_notification(ns, user_id, ok) ==
    [notifications |-> IF ok THEN [ns EXCEPT ![user_id] = @ + 1] ELSE ns,
     raised |-> FALSE]

\* a slip: the status written without looking at the errors
log_status_success(errors) == "success"

\* "status": "success" if not mining_stats["errors"] else "partial_success"
log_status(errors) == IF errors = <<>> THEN "success" ELSE "partial_success"

mining_log_doc(stats) ==
    [tokens_processed |-> stats.tokens_processed,
     total_earnings_distributed |-> stats.total_earnings_distributed,
     errors_count |-> Len(stats.errors),
     status |-> log_status(stats.errors)]

\* the document the `except Exception` branch of the cycle inserts
failed_log_doc ==
    [tokens_processed |-> 0, total_earnings_distributed |-> 0,
     status |-> "failed", error |-> "Critical mining error"]


\* --------------------------------------------------- API handlers' updates
\* a slip: "$set" of the balance read before, plus the amount
admin_send_balance_update_rmw(us, target_user, amount) ==
    [us EXCEPT ![target_user.user_id].total_earnings =
                   target_user.total_earnings + amount]

\* a slip: the target checked for existence only
admin_send_balance_rejects_missing(us, user_id) == ~us[user_id].exists

\* admin_send_balance: 404 "Target user not found", 400 "Cannot send
\* balance to admin users"
admin_send_balance_rejects(us, user_id) ==
    ~us[user_id].exists \/ us[user_id].is_admin

\* admin_send_balance: users.update_one({"user_id": ..}, {"$inc": ..});
\* target_user is the document found before the update
admin_send_balance_update(us, target_user, amount) ==
    inc_total_earnings(us, target_user.user_id, amount)

\* TaskManager.complete_task: users.update_one(.., {"$inc": total_earnings})
complete_task_update_user(us, user_id, reward) ==
    inc_total_earnings(us, user_id, reward)

\* TaskManager.complete_task: tasks.update_one(.., $push completion_data,
\* $inc total_completions / total_rewards_paid, $addToSet completed_by)
complete_task_update_task(task, seen, user_id) ==
    [task EXCEPT
       !.total_completions = @ + 1,
       !.total_rewards_paid = @ + seen.reward,
       !.completed_by = IF seen.type = "one_time" THEN @ \cup {user_id} ELSE @]

\* admin_boost_user_token: tokens.find_one_and_update(.., $inc boost_level,
\* $push boost_history)
admin_boost_update(tk, token_id, new_boost_level) ==
    [tk EXCEPT ![token_id].boost_level = @ + 1,
               ![token_id].boost_history =
                   Append(@, [new_level |-> new_boost_level,
                              boost_type |-> "admin_granted"])]

\* tokens.count_documents({"owner_id": user_id})
count_tokens(tk, user_id) ==
    Cardinality({t \in TokenIds : tk[t].exists /\ tk[t].owner_id = user_id})

\* a slip: the limit tested on the user's counter, as initialize_payment
\* tests it, instead of on the token documents
grant_limit_reached_by_counter(tk, us, user_id) ==
    us[user_id].tokens_owned >= MaxTokensPerUser

\* admin_grant_token_to_user: current_tokens >= 5
grant_limit_reached(tk, us, user_id) ==
    count_tokens(tk, user_id) >= MaxTokensPerUser

\* a transaction document
transaction_doc(user_id, action, amount_usd) ==
    [user_id |-> user_id, action |-> action, amount_usd |-> amount_usd,
     status |-> "success"]

\* ----------------------------------------------------------- initial state
NoResponse == [op |-> "none", status_code |-> 0, user_id |-> "u1",
               reference |-> 0, paid |-> FALSE, before |-> 0]

NoCycle ==
    [phase |-> "none", logs_before |-> 0,
     users_before |-> [u \in UserIds |-> 0],
     tokens_before |-> [t \in TokenIds |->
                          [total_earnings |-> 0, entries |-> 0]],
     listed |-> FALSE, log_raised |-> FALSE, eligible |-> {}, counted |-> {},
     tok_failed |-> {}, own_failed |-> {}, notif_failed |-> {},
     own_credited |-> {}, caught |-> 0, external |-> FALSE,
     retry |-> FALSE, signalled |-> FALSE]

\* Token documents the store may hold when the process starts.  The store is
\* durable and outlives the process: besides the documents the handlers
\* create (active, owned by a registered user) it may hold deactivated
\* tokens, tokens of an admin and tokens whose owner document is gone, the
\* three cases the cycle's filter and modified_count test exist for.
\* The first token starts at level 0 or 1, the others at level 0.
InitTokenDocs(t) ==
    {[token_doc("u1") EXCEPT !.active = a] : a \in BOOLEAN}
    \cup {token_doc("adm"), token_doc("u2")}
    \cup {[token_doc("u1") EXCEPT !.boost_level = b] :
            b \in IF t = 1 THEN InitBoostLevels ELSE {0}}

InitTask ==
    {[active |-> TRUE, type |-> ty, reward |-> r, completed_by |-> {},
      total_completions |-> 0, total_rewards_paid |-> 0] :
        ty \in {"one_time", "repeatable"}, r \in TaskRewards}

\* the users collection of a running deployment: the user u1 and the admin
InitUsers ==
    [u \in UserIds |->
        IF u = "u1" THEN user_doc(FALSE)
        ELSE IF u = "adm" THEN user_doc(TRUE) ELSE NoUser]

InitRest ==
    /\ transactions = <<>>
    /\ notifications = [u \in UserIds |-> 0]
    /\ mining_logs = <<>>
    /\ is_running = FALSE
    /\ pc = "boot"
    /\ cycles = 0
    /\ mining_stats = [tokens_processed |-> 0, total_earnings_distributed |-> 0,
                       errors |-> <<>>]
    /\ tokens_list = <<>>
    /\ idx = 1
    /\ stopping = FALSE
    /\ gift = [pc |-> "idle", target_user |-> [user_id |-> "u1",
                                                total_earnings |-> 0],
               amount |-> 0]
    /\ tc = [pc |-> "idle", user_id |-> "u1",
             task |-> [type |-> "one_time", reward |-> 0]]
    /\ calls = [gift |-> 0, task |-> 0, boost |-> 0, payment |-> 0]
    /\ faults = 0
    /\ response = NoResponse
    /\ cyc = NoCycle
    /\ applied = [u \in UserIds |-> 0]
    /\ log_caught = <<>>

\* the tokens collections Init starts from
InitTokens ==
    {tk \in [StoreIds -> UNION {InitTokenDocs(t) : t \in StoreIds}
                            \cup {NoToken}] :
        \A t \in StoreIds :
           IF t \in InitTokenIds THEN tk[t] \in InitTokenDocs(t)
                                 ELSE tk[t] = NoToken}

\* the tokens collections with one token, active and owned by the registered
\* user u1, at any boost level up to MaxBoostLevel
InitBoosted ==
    {[t \in StoreIds |->
        IF t = 1 THEN [token_doc("u1") EXCEPT !.boost_level = b] ELSE NoToken] :
       b \in 0..MaxBoostLevel}

Init ==
    /\ tokens \in InitTokens
    /\ tasks \in {k \in InitTask : k.type = "one_time"}
    /\ users = InitUsers
    /\ InitRest

\* Start-up states for the earning formula: the ledgers of Init and the
\* ledgers of one boosted token.
InitEarning ==
    /\ tokens \in InitTokens \cup InitBoosted
    /\ tasks \in {k \in InitTask : k.type = "one_time"}
    /\ users = InitUsers
    /\ InitRest

\* Start-up states for the scheduler: two tokens, active, at level 0 and
\* owned by the registered user u1.
InitScheduler ==
    /\ tokens = [t \in StoreIds |->
                   IF t \in InitTokenIds THEN token_doc("u1") ELSE NoToken]
    /\ tasks \in {k \in InitTask : k.type = "one_time"}
    /\ users = InitUsers
    /\ InitRest

\* Start-up states for the account handlers: an empty store.
InitAccounts ==
    /\ tokens = [t \in StoreIds |-> NoToken]
    /\ tasks \in {k \in InitTask : k.type = "one_time"}
    /\ users = [u \in UserIds |-> NoUser]
    /\ InitRest

\* Start-up states for the admin's place in the economy: one token owned
\* by the admin and one owned by the registered user u1.
InitEconomy ==
    /\ tokens = [t \in StoreIds |->
                   IF t = 1 THEN token_doc("adm")
                   ELSE IF t = 2 THEN token_doc("u1") ELSE NoToken]
    /\ tasks \in {k \in InitTask : k.type = "one_time"}
    /\ users = InitUsers
    /\ InitRest

\* Start-up states for the price of a boost: one token, active and owned
\* by the registered user u1, at any boost level up to MaxBoostLevel.
InitPricing ==
    /\ tokens \in InitBoosted
    /\ tasks \in {k \in InitTask : k.type = "one_time"}
    /\ users = InitUsers
    /\ InitRest

\* Start-up states for the limit of five tokens: the registered user u1
\* owns three tokens, and the store has room for three more.
InitLimit ==
    /\ tokens = [t \in LimitIds |->
                   IF t <= 3 THEN token_doc("u1") ELSE NoToken]
    /\ tasks \in {k \in InitTask : k.type = "one_time"}
    /\ users = [InitUsers EXCEPT !["u1"].tokens_owned = 3]
    /\ InitRest

\* Start-up states for the balance handlers: one token, active, at level 0
\* and owned by the registered user u1.
InitBalance ==
    /\ tokens = [t \in StoreIds |->
                   IF t = 1 THEN token_doc("u1") ELSE NoToken]
    /\ tasks \in InitTask
    /\ users = InitUsers
    /\ InitRest

\* ------------------------------------------------------------------ faults
\* a store operation raises only while the fault budget lasts
Outcomes == IF faults < MaxFaults THEN BOOLEAN ELSE {TRUE}
Fault(ok) == faults' = IF ok THEN faults ELSE faults + 1

\* ------------------------------------------------------------ the scheduler
\* a slip: the sleep placed before the cycle in the loop body
loop_body_sleep_first == "sleep"

\* the loop body: `await self.process_mining_cycle()` comes first, the
\* `await asyncio.sleep(self.mining_interval)` after it
loop_body == "loop"

\* a slip: the handler re-raises, and the exception leaves the coroutine
scheduler_on_error_raise == "aborted"

\* except Exception as e: ... await asyncio.sleep(600), inside the loop
scheduler_on_error == "backoff"

\* the awaits at which the scheduler task is suspended: its two sleeps
\* (process_mining_cycle itself contains no await that yields)
Suspended == pc \in {"sleep", "backoff"}

\* a slip: stop_mining leaving the flag as it is
stop_mining_skipped(running) == running

\* MiningManager.stop_mining: self.is_running = False
stop_mining(running) == FALSE

\* a slip: the status reported without looking at the flag
mining_status_active(running) == "active"

\* "mining_status": "active" if mining_manager.is_running else "inactive"
mining_status(running) == IF running THEN "active" ELSE "inactive"

\* lifespan: asyncio.create_task(mining_scheduler()); the task sets is_running
mining_scheduler_start ==
    /\ pc = "boot"
    /\ is_running' = TRUE
    /\ pc' = loop_body
    /\ UNCHANGED <<response, ledgerVars, cycles, mining_stats, tokens_list, idx,
                   stopping, apiLocals, faults, obsVars>>

\* `while self.is_running:` and the first lines of process_mining_cycle
process_mining_cycle_begin ==
    /\ pc = "loop"
    /\ is_running
    /\ cycles < MaxCycles
    /\ cycles' = cycles + 1
    /\ mining_stats' = [tokens_processed |-> 0,
                        total_earnings_distributed |-> 0, errors |-> <<>>]
    /\ tokens_list' = <<>>
    /\ idx' = 1
    /\ pc' = "list"
    /\ cyc' = [NoCycle EXCEPT
                 !.phase = "running",
                 !.retry = (cyc.phase = "raised"),
                 !.logs_before = Len(mining_logs),
                 !.users_before = [u \in UserIds |-> users[u].total_earnings],
                 !.tokens_before = [t \in TokenIds |->
                     [total_earnings |-> tokens[t].total_earnings,
                      entries |-> Len(tokens[t].mining_history)]]]
    /\ UNCHANGED <<response, ledgerVars, is_running, stopping, apiLocals, faults, applied,
                   log_caught>>

\* the two find() calls that list the eligible tokens
process_mining_cycle_list ==
    /\ pc = "list"
    /\ \E ok \in Outcomes :
         /\ Fault(ok)
         /\ IF ok
            THEN /\ tokens_list' = list_tokens(tokens, users)
                 /\ pc' = IF list_tokens(tokens, users) = <<>>
                          THEN "write_log" ELSE "token_update"
                 /\ cyc' = [cyc EXCEPT
                      !.listed = TRUE,
                      !.eligible = {t \in TokenIds :
                          /\ tokens[t].exists
                          /\ tokens[t].active
                          /\ ~(users[tokens[t].owner_id].exists
                               /\ users[tokens[t].owner_id].is_admin)}]
            ELSE /\ pc' = "write_failed_log"
                 /\ UNCHANGED <<tokens_list, cyc>>
    /\ UNCHANGED <<response, ledgerVars, is_running, cycles, mining_stats, idx,
                   stopping, apiLocals, applied, log_caught>>

\* the loop moves to the next token, or leaves the loop
NextToken ==
    /\ idx' = idx + 1
    /\ pc' = IF idx < Len(tokens_list) THEN "token_update" ELSE "write_log"

\* except Exception as token_error: mining_stats["errors"].append(error_msg)
TokenError(token) ==
    /\ mining_stats' = [mining_stats EXCEPT !.errors = Append(@, token.token_id)]
    /\ NextToken

\* mining_stats["tokens_processed"] += 1; total_earnings_distributed += earning
TokenCounted(token) ==
    /\ mining_stats' = [mining_stats EXCEPT
          !.tokens_processed = @ + 1,
          !.total_earnings_distributed = @ + earning(token.boost_level)]
    /\ NextToken

\* tokens.update_one(...) of the current token
process_mining_cycle_token ==
    /\ pc = "token_update"
    /\ LET token == tokens_list[idx] IN
       \E ok \in Outcomes :
         /\ Fault(ok)
         /\ IF ok
            THEN /\ tokens' = token_update_one(tokens, token.token_id,
                               earning(token.boost_level), token.boost_level)
                 /\ pc' = "owner_update"
                 /\ UNCHANGED <<mining_stats, idx, cyc>>
            ELSE /\ TokenError(token)
                 /\ cyc' = [cyc EXCEPT !.tok_failed = @ \cup {token.token_id},
                                       !.caught = @ + 1]
                 /\ UNCHANGED tokens
    /\ UNCHANGED <<response, users, tasks, transactions, notifications, mining_logs,
                   is_running, cycles, tokens_list, stopping, apiLocals, applied,
                   log_caught>>

\* users.update_one(...) of the owner, and the modified_count test
process_mining_cycle_owner ==
    /\ pc = "owner_update"
    /\ LET token == tokens_list[idx] IN
       \E ok \in Outcomes :
         /\ Fault(ok)
         /\ IF ok
            THEN /\ users' = inc_total_earnings(users, token.owner_id,
                                                earning(token.boost_level))
                 /\ IF modified_count(users, token.owner_id) > 0
                    THEN /\ pc' = "notify"
                         /\ applied' = [applied EXCEPT ![token.owner_id] =
                                           @ + earning(token.boost_level)]
                         /\ cyc' = [cyc EXCEPT
                                      !.own_credited = @ \cup {token.token_id}]
                         /\ UNCHANGED <<mining_stats, idx>>
                    ELSE /\ TokenCounted(token)
                         /\ cyc' = [cyc EXCEPT
                                      !.counted = @ \cup {token.token_id}]
                         /\ UNCHANGED applied
            ELSE /\ TokenError(token)
                 /\ cyc' = [cyc EXCEPT !.own_failed = @ \cup {token.token_id},
                                       !.caught = @ + 1]
                 /\ UNCHANGED <<users, applied>>
    /\ UNCHANGED <<response, tokens, tasks, transactions, notifications, mining_logs,
                   is_running, cycles, tokens_list, stopping, apiLocals, log_caught>>

\* notification_manager.create_notification(...) and the two counters
process_mining_cycle_notify ==
    /\ pc = "notify"
    /\ LET token == tokens_list[idx] IN
       \E ok \in Outcomes :
         LET r == create_notification(notifications, token.owner_id, ok) IN
         /\ Fault(ok)
         /\ notifications' = r.notifications
         /\ IF r.raised
            THEN /\ TokenError(token)
                 /\ cyc' = [cyc EXCEPT
                              !.notif_failed = @ \cup {token.token_id},
                              !.caught = @ + 1]
            ELSE /\ TokenCounted(token)
                 /\ cyc' = [cyc EXCEPT
                      !.counted = @ \cup {token.token_id},
                      !.notif_failed = IF ok THEN @ ELSE @ \cup {token.token_id}]
    /\ UNCHANGED <<response, users, tokens, tasks, transactions, mining_logs,
                   is_running, cycles, tokens_list, stopping, apiLocals, applied,
                   log_caught>>

\* mining_logs.insert_one({... "status": success | partial_success})
process_mining_cycle_log ==
    /\ pc = "write_log"
    /\ \E ok \in Outcomes :
         /\ Fault(ok)
         /\ IF ok
            THEN /\ mining_logs' = Append(mining_logs,
                                          mining_log_doc(mining_stats))
                 /\ log_caught' = Append(log_caught, cyc.caught)
                 /\ pc' = "sleep"
                 /\ cyc' = [cyc EXCEPT !.phase = "returned"]
            ELSE /\ pc' = "write_failed_log"
                 /\ cyc' = [cyc EXCEPT !.log_raised = TRUE]
                 /\ UNCHANGED <<mining_logs, log_caught>>
    /\ UNCHANGED <<response, users, tokens, tasks, transactions, notifications,
                   is_running, cycles, mining_stats, tokens_list, idx,
                   stopping, apiLocals, applied>>

\* except Exception as e: mining_logs.insert_one({... "status": "failed"});
\* an exception of this insert leaves process_mining_cycle and is caught by
\* the scheduler's `except Exception`, which sleeps 600 seconds
process_mining_cycle_failed ==
    /\ pc = "write_failed_log"
    /\ \E ok \in Outcomes :
         /\ Fault(ok)
         /\ IF ok
            THEN /\ mining_logs' = Append(mining_logs, failed_log_doc)
                 /\ log_caught' = Append(log_caught, cyc.caught)
                 /\ pc' = "sleep"
                 /\ cyc' = [cyc EXCEPT !.phase = "returned"]
            ELSE /\ pc' = scheduler_on_error
                 /\ cyc' = [cyc EXCEPT !.phase = "raised"]
                 /\ UNCHANGED <<mining_logs, log_caught>>
    /\ UNCHANGED <<response, users, tokens, tasks, transactions, notifications,
                   is_running, cycles, mining_stats, tokens_list, idx,
                   stopping, apiLocals, applied>>

\* asyncio.sleep(self.mining_interval) / asyncio.sleep(600) returns
mining_scheduler_wake ==
    /\ pc \in {"sleep", "backoff"}
    /\ pc' = "loop"
    /\ UNCHANGED <<response, ledgerVars, is_running, cycles, mining_stats, tokens_list,
                   idx, stopping, apiLocals, faults, obsVars>>

\* the host asks the application to shut down; the request may arrive at
\* any moment, the code after lifespan's `yield` runs in the event loop
host_shutdown ==
    /\ ~stopping
    /\ stopping' = TRUE
    /\ cyc' = IF cyc.phase = "running" THEN [cyc EXCEPT !.signalled = TRUE]
              ELSE cyc
    /\ UNCHANGED <<response, ledgerVars, is_running, pc, cycles, mining_stats,
                   tokens_list, idx, apiLocals, faults, applied, log_caught>>

\* lifespan after `yield`: mining_manager.stop_mining(); mining_task.cancel().
\* It runs in the event loop of the scheduler task, hence while that task is
\* suspended; the CancelledError is then pending at the task's await.
lifespan_shutdown ==
    /\ stopping
    /\ Suspended
    /\ is_running' = stop_mining(is_running)
    /\ pc' = IF pc = "sleep" THEN "sleep_cancel" ELSE "backoff_cancel"
    /\ UNCHANGED <<response, ledgerVars, cycles, mining_stats, tokens_list, idx,
                   stopping, apiLocals, faults, obsVars>>

\* the task resumes with CancelledError.  Raised by the sleep inside `try`,
\* it is caught by `except asyncio.CancelledError: break`, and the line
\* after the loop sets is_running = False.  Raised by the sleep inside the
\* `except Exception` handler, it leaves the coroutine and that line is
\* not executed.
mining_scheduler_cancelled ==
    /\ pc \in {"sleep_cancel", "backoff_cancel"}
    /\ IF pc = "sleep_cancel"
       THEN /\ is_running' = FALSE
            /\ pc' = "stopped"
       ELSE /\ pc' = "aborted"
            /\ UNCHANGED is_running
    /\ UNCHANGED <<response, ledgerVars, cycles, mining_stats, tokens_list, idx,
                   stopping, apiLocals, faults, obsVars>>

\* ------------------------------------------------------ admin token handlers
\* an API call that changes users' total_earnings while a cycle runs
External == IF cyc.phase = "running" THEN [cyc EXCEPT !.external = TRUE] ELSE cyc

\* POST /api/admin/workspace/tokens/boost-token, called by the admin.
\* step names the store operation that raises, if one does.  A call that is
\* rejected (404, 400), or whose first write raises (500), changes nothing.
admin_boost_user_token ==
    /\ admin_user_ids(users) # {}                  \* require_admin
    /\ calls.boost < MaxBoosts
    /\ \E token_id \in TokenIds, step \in {"none", "update", "transaction"} :
         LET token == tokens[token_id]
             new_boost_level == token.boost_level + 1
             r == create_notification(notifications, token.owner_id, TRUE)
         IN
         /\ step # "none" => faults < MaxFaults
         /\ IF \/ ~token.exists                      \* 404 Token not found
               \/ ~users[token.owner_id].exists      \* 404 owner not found
               \/ users[token.owner_id].is_admin     \* 400 admin-owned
               \/ step = "update"                    \* 500
            THEN UNCHANGED <<tokens, transactions, notifications, calls, faults>>
            ELSE /\ calls' = [calls EXCEPT !.boost = @ + 1]
                 /\ Fault(step = "none")
                 /\ tokens' = admin_boost_update(tokens, token_id,
                                                 new_boost_level)
                 /\ IF step = "transaction"
                    THEN UNCHANGED <<transactions, notifications>>
                    ELSE /\ transactions' = Append(transactions,
                              transaction_doc(token.owner_id,
                                              "admin_token_boost", 0))
                         /\ notifications' = r.notifications
    /\ UNCHANGED <<response, users, tasks, mining_logs, cycleVars, gift, tc, obsVars>>

\* the token_id of the next inserted token document
FreeTokenIds == {t \in TokenIds : ~tokens[t].exists}
new_token_id == CHOOSE t \in FreeTokenIds : \A x \in FreeTokenIds : t <= x

\* POST /api/admin/workspace/users/grant-token, called by the admin
admin_grant_token_to_user ==
    /\ admin_user_ids(users) # {}                  \* require_admin
    /\ FreeTokenIds # {}
    /\ \E user_id \in UserIds,
          step \in {"none", "insert", "tokens_owned", "transaction"} :
         LET r == create_notification(notifications, user_id, TRUE)
         IN
         /\ step # "none" => faults < MaxFaults
         /\ IF \/ ~users[user_id].exists             \* 404 Target not found
               \/ users[user_id].is_admin            \* 400 admin target
               \/ grant_limit_reached(tokens, users, user_id)        \* 400
               \/ step = "insert"                    \* 500
            THEN UNCHANGED <<tokens, users, transactions, notifications,
                             faults>>
            ELSE /\ Fault(step = "none")
                 /\ tokens' = [tokens EXCEPT ![new_token_id] = token_doc(user_id)]
                 /\ IF step = "tokens_owned"
                    THEN UNCHANGED <<users, transactions, notifications>>
                    ELSE /\ users' = [users EXCEPT ![user_id].tokens_owned = @ + 1]
                         /\ IF step = "transaction"
                            THEN UNCHANGED <<transactions, notifications>>
                            ELSE /\ transactions' = Append(transactions,
                                      transaction_doc(user_id,
                                                      "admin_token_grant", 0))
                                 /\ notifications' = r.notifications
    /\ UNCHANGED <<response, tasks, mining_logs, cycleVars, apiLocals, obsVars>>

\* --------------------------------------------------- balance handlers
\* POST /api/admin/workspace/send-balance, called by the admin: the find_one
\* of the target user.  A call that is rejected (404 for a missing target,
\* 400 for an admin target) changes nothing.
admin_send_balance_find ==
    /\ admin_user_ids(users) # {}                  \* require_admin
    /\ gift.pc = "idle"
    /\ calls.gift + calls.task < MaxBalanceCalls
    /\ \E user_id \in UserIds, amount \in GiftAmounts :
         IF admin_send_balance_rejects(users, user_id)
         THEN UNCHANGED <<gift, calls>>
         ELSE /\ gift' = [pc |-> "update",
                          target_user |-> [user_id |-> user_id,
                              total_earnings |-> users[user_id].total_earnings],
                          amount |-> amount]
              /\ calls' = [calls EXCEPT !.gift = @ + 1]
    /\ UNCHANGED <<response, ledgerVars, cycleVars, tc, faults, obsVars>>

\* admin_send_balance: the update_one of the target's total_earnings, then
\* the transaction insert and the notification.  step names the store
\* operation that raises (500), if one does.  The writes after the update
\* touch only collections the cycle never reads, so they share its step.
admin_send_balance_write ==
    /\ gift.pc = "update"
    /\ \E step \in {"none", "update", "transaction"} :
         /\ step # "none" => faults < MaxFaults
         /\ Fault(step = "none")
         /\ IF step = "update"
            THEN UNCHANGED <<users, transactions, notifications, applied, cyc>>
            ELSE /\ users' = admin_send_balance_update(users, gift.target_user,
                                                       gift.amount)
                 /\ applied' = [applied EXCEPT ![gift.target_user.user_id] =
                                   @ + gift.amount]
                 /\ cyc' = External
                 /\ IF step = "transaction"
                    THEN UNCHANGED <<transactions, notifications>>
                    ELSE /\ transactions' = Append(transactions,
                               transaction_doc(gift.target_user.user_id,
                                               "admin_balance_gift", gift.amount))
                         /\ notifications' = create_notification(notifications,
                               gift.target_user.user_id, TRUE).notifications
    /\ gift' = [gift EXCEPT !.pc = "idle"]
    /\ UNCHANGED <<response, tokens, tasks, mining_logs, cycleVars, tc, calls, log_caught>>

\* POST /api/tasks/complete by an authenticated user, and the find_one of
\* TaskManager.complete_task.  The stored task has no expires_at.  A call
\* that is rejected (400 for an admin, 404 for an inactive task, 400 for a
\* one_time task already completed) changes nothing.
complete_task_find ==
    /\ tc.pc = "idle"
    /\ calls.gift + calls.task < MaxBalanceCalls
    /\ \E user_id \in {u \in UserIds : users[u].exists} :
         IF \/ users[user_id].is_admin
            \/ ~tasks.active
            \/ user_id \in tasks.completed_by /\ tasks.type = "one_time"
         THEN UNCHANGED <<tc, calls>>
         ELSE /\ tc' = [pc |-> "update", user_id |-> user_id,
                        task |-> [type |-> tasks.type, reward |-> tasks.reward]]
              /\ calls' = [calls EXCEPT !.task = @ + 1]
    /\ UNCHANGED <<response, ledgerVars, cycleVars, gift, faults, obsVars>>

\* complete_task: the update_one of the user's total_earnings, then the
\* update_one of the task, the transaction insert and the notification.
\* step names the store operation that raises (500), if one does.
complete_task_write ==
    /\ tc.pc = "update"
    /\ \E step \in {"none", "user", "task", "transaction"} :
         /\ step # "none" => faults < MaxFaults
         /\ Fault(step = "none")
         /\ IF step = "user"
            THEN UNCHANGED <<users, tasks, transactions, notifications,
                             applied, cyc>>
            ELSE /\ users' = complete_task_update_user(users, tc.user_id,
                                                       tc.task.reward)
                 /\ applied' = [applied EXCEPT ![tc.user_id] =
                                   @ + tc.task.reward]
                 /\ cyc' = External
                 /\ IF step = "task"
                    THEN UNCHANGED <<tasks, transactions, notifications>>
                    ELSE /\ tasks' = complete_task_update_task(tasks, tc.task,
                                                               tc.user_id)
                         /\ IF step = "transaction"
                            THEN UNCHANGED <<transactions, notifications>>
                            ELSE /\ transactions' = Append(transactions,
                                       transaction_doc(tc.user_id,
                                           "task_completion", tc.task.reward))
                                 /\ notifications' = create_notification(
                                       notifications, tc.user_id,
                                       TRUE).notifications
    /\ tc' = [tc EXCEPT !.pc = "idle"]
    /\ UNCHANGED <<response, tokens, mining_logs, cycleVars, gift, calls, log_caught>>

\* ----------------------------------------------------- account handlers
\* "is_admin": user_data.email == "larryryh76@gmail.com".  Every e-mail
\* address gets one user_id; "adm" is the user_id of that address.
is_admin_email(user_id) == user_id = "adm"

\* a slip: the helpers reachable, as if they were methods of a bound object
self_is_bound_method == TRUE

\* `self` in the module-level coroutines register_user and verify_payment:
\* no such name is in scope, so evaluating self._process_referral,
\* self._create_first_token, self._process_token_purchase or
\* self._process_token_boost raises NameError, which the handler's
\* `except Exception` turns into a 500
self_is_bound == FALSE

\* UserCreate.referral_code: absent, or the code of the user_id named
ReferralCodes == {"none", "u1", "adm"}

\* POST /api/register.  A call for a registered address is rejected with
\* 400 and changes nothing.  ok = FALSE: the find_one or the insert_one of
\* the user raises (500) and nothing is stored.
register_user ==
    \E user_id \in {u \in UserIds : ~users[u].exists},
       referral_code \in ReferralCodes, ok \in Outcomes :
      LET is_admin == is_admin_email(user_id)
          inserted == [users EXCEPT ![user_id] = user_doc(is_admin)]
          reply(code) == [NoResponse EXCEPT !.op = "register",
                            !.status_code = code, !.user_id = user_id]
      IN
      /\ Fault(ok)
      /\ IF ~ok
         THEN UNCHANGED <<response, users, notifications>>
         ELSE /\ users' = inserted
              /\ IF (referral_code # "none" \/ ~is_admin) /\ ~self_is_bound
                 THEN /\ response' = reply(500)              \* NameError
                      /\ UNCHANGED notifications
                 ELSE /\ response' = reply(200)
                      /\ notifications' = create_notification(
                            notifications, user_id, TRUE).notifications
      /\ UNCHANGED <<tokens, tasks, transactions, mining_logs, cycleVars,
                     apiLocals, obsVars>>

\* a slip: the price counted linearly in the level instead of doubling
price_linear(boost_level) == boost_price * (boost_level + 1)

\* initialize_payment: amount_usd = 3.0 * (2 ** token["boost_level"])
price(boost_level) == boost_price * Pow2(boost_level)

\* the transaction document initialize_payment inserts
payment_doc(user_id, action, amount_usd, reference, token_id) ==
    [user_id |-> user_id, action |-> action, amount_usd |-> amount_usd,
     status |-> "initialized", reference |-> reference, token_id |-> token_id]

\* the stored payments: positions of the transactions with a reference
Payments ==
    {i \in 1..Len(transactions) : "reference" \in DOMAIN transactions[i]}

\* POST /api/payment/initialize by an authenticated user, with the gateway
\* accepting the initialization.  A call that is rejected (400 for an
\* admin, 400 at five tokens, 404 for a token of somebody else) or whose
\* insert raises changes nothing.
initialize_payment ==
    /\ calls.payment < MaxPayments
    /\ \E user_id \in {u \in UserIds : users[u].exists},
          action \in {"token", "boost"}, token_id \in TokenIds :
         LET token == tokens[token_id]
             amount_usd == IF action = "token" THEN token_price
                           ELSE price(token.boost_level)
         IN
         /\ ~users[user_id].is_admin
         /\ action = "token" =>
               /\ users[user_id].tokens_owned < MaxTokensPerUser
               /\ token_id = 1                \* no token is named
         /\ action = "boost" => (token.exists /\ token.owner_id = user_id)
         /\ transactions' = Append(transactions,
                payment_doc(user_id, action, amount_usd,
                            Len(transactions) + 1,
                            IF action = "boost" THEN token_id ELSE 0))
         /\ calls' = [calls EXCEPT !.payment = @ + 1]
    /\ UNCHANGED <<response, users, tokens, tasks, notifications, mining_logs,
                   cycleVars, gift, tc, faults, obsVars>>

\* _process_token_boost: tokens.update_one(.., $inc boost_level, $push
\* boost_history)
paid_boost_update(tk, token_id, new_boost_level) ==
    [tk EXCEPT ![token_id].boost_level = @ + 1,
               ![token_id].boost_history =
                   Append(@, [new_level |-> new_boost_level,
                              boost_type |-> "paid"])]

\* verify_payment: transactions.update_one({"reference": ..}, {"$set":
\* {"status": "success", ..}})
mark_success(txs, reference) ==
    [txs EXCEPT ![reference].status = "success"]

\* POST /api/payment/verify by an authenticated user.  paid is the status
\* the gateway reports for the reference.  A rejected call changes
\* nothing.  The helpers that apply the purchase are reached through
\* `self`, so an accepted call ends in a 500 before any write.  The writes
\* behind that call are _process_token_purchase or _process_token_boost,
\* then the update of the transaction and the notification; step names the
\* store operation that raises (500), if one does: the helper's first
\* write, its $inc of the user's counter, or the transaction's update.
verify_payment ==
    \E user_id \in {u \in UserIds : users[u].exists},
       reference \in Payments, paid \in BOOLEAN,
       step \in {"none", "helper", "counter", "transaction"} :
      LET tx == transactions[reference]
          before == IF tx.action = "token" THEN users[tx.user_id].tokens_owned
                    ELSE tokens[tx.token_id].boost_level
          reply(code) == [NoResponse EXCEPT !.op = "verify",
                            !.status_code = code, !.user_id = user_id,
                            !.reference = reference, !.paid = paid,
                            !.before = before]
      IN
      /\ ~users[user_id].is_admin          \* else 400 admin
      /\ paid                              \* else 400 verification failed
      /\ tx.user_id = user_id              \* else 403 unauthorized
      /\ tx.status # "success"             \* else 400 already processed
      /\ IF ~self_is_bound
         THEN /\ step = "none"
              /\ response' = reply(500)                      \* NameError
              /\ UNCHANGED <<users, tokens, transactions, notifications,
                             faults>>
         ELSE /\ step # "none" => faults < MaxFaults
              /\ Fault(step = "none")
              /\ tx.action = "token" => FreeTokenIds # {}
              /\ tx.action = "boost" =>      \* else 404 Token not found
                    /\ tokens[tx.token_id].exists
                    /\ tokens[tx.token_id].owner_id = user_id
              /\ tokens' =
                   IF step = "helper" THEN tokens
                   ELSE IF tx.action = "token"
                   THEN [tokens EXCEPT ![new_token_id] = token_doc(user_id)]
                   ELSE paid_boost_update(tokens, tx.token_id,
                                          tokens[tx.token_id].boost_level + 1)
              /\ users' =
                   IF step \in {"helper", "counter"} THEN users
                   ELSE IF tx.action = "token"
                   THEN [users EXCEPT ![user_id].tokens_owned = @ + 1]
                   ELSE [users EXCEPT ![user_id].boosts_used = @ + 1]
              /\ transactions' = IF step = "none"
                                 THEN mark_success(transactions, reference)
                                 ELSE transactions
              /\ notifications' =
                   IF step = "none"
                   THEN create_notification(notifications, user_id,
                                            TRUE).notifications
                   ELSE notifications
              /\ response' = reply(IF step = "none" THEN 200 ELSE 500)
      /\ UNCHANGED <<tasks, mining_logs, cycleVars, apiLocals, obsVars>>

\* ------------------------------------------------- the admin dependency
\* the routes declared with Depends(require_admin)
AdminRoutes == {"send-balance", "grant-token", "boost-token", "create-task",
                "broadcast", "dashboard", "users", "tasks", "broadcasts",
                "system-status"}

\* require_admin for a user get_current_user has returned: 0 when the
\* dependency returns the user, else the status of the response.  For a
\* non-admin it inserts a security_logs document and raises 403; ok = FALSE:
\* that insert raises, nothing catches it and the response is a 500.
require_admin(current_user, ok) ==
    IF current_user.is_admin THEN 0
    ELSE IF ok THEN 403 ELSE 500

\* A route of the admin workspace called by an authenticated non-admin
\* user.  The dependency raises before the handler's body is entered.
admin_workspace_denied ==
    /\ \E user_id \in {u \in UserIds : users[u].exists /\ ~users[u].is_admin},
          route \in AdminRoutes, ok \in Outcomes :
         /\ Fault(ok)
         /\ response' = [NoResponse EXCEPT !.op = route,
                            !.status_code = require_admin(users[user_id], ok),
                            !.user_id = user_id]
    /\ UNCHANGED <<ledgerVars, cycleVars, apiLocals, obsVars>>

\* ---------------------------------------------------------- specifications
\* the handlers that test the limit of five tokens or insert a token
NextLimit ==
    \/ initialize_payment
    \/ verify_payment
    \/ admin_grant_token_to_user

SpecLimit == InitLimit /\ [][NextLimit]_vars

\* the payments of registered users, from the store of InitPricing
NextPayments ==
    \/ register_user
    \/ initialize_payment
    \/ verify_payment

SpecPayments == InitPricing /\ [][NextPayments]_vars

\* the task completions of registered users: the only writer of
\* total_earnings here is complete_task
NextTasks ==
    \/ register_user
    \/ complete_task_find
    \/ complete_task_write

SpecTasks == InitBalance /\ [][NextTasks]_vars

\* the admin workspace, called by the admin and by non-admin users
NextAdmin ==
    \/ admin_workspace_denied
    \/ admin_send_balance_find
    \/ admin_send_balance_write
    \/ admin_grant_token_to_user
    \/ admin_boost_user_token

SpecAdmin == InitBalance /\ [][NextAdmin]_vars

\* the scheduler and its accrual cycle
NextCycle ==
    \/ mining_scheduler_start
    \/ process_mining_cycle_begin
    \/ process_mining_cycle_list
    \/ process_mining_cycle_token
    \/ process_mining_cycle_owner
    \/ process_mining_cycle_notify
    \/ process_mining_cycle_log
    \/ process_mining_cycle_failed
    \/ mining_scheduler_wake

\* the cycle alone
SpecCycle == Init /\ [][NextCycle]_vars

\* the cycle, and the handler that inserts tokens while it runs
Next ==
    \/ NextCycle
    \/ admin_grant_token_to_user

Spec == Init /\ [][Next]_vars

\* the cycle, and the handler that changes boost levels while it runs
NextEarning ==
    \/ NextCycle
    \/ admin_boost_user_token

SpecEarning == InitEarning /\ [][NextEarning]_vars

\* the cycle, and the handlers that write users' total_earnings
NextBalance ==
    \/ NextCycle
    \/ admin_send_balance_find
    \/ admin_send_balance_write
    \/ complete_task_find
    \/ complete_task_write

SpecBalance == InitBalance /\ [][NextBalance]_vars

\* the cycle, the scheduler around it and the shutdown of the application
NextScheduler ==
    \/ NextCycle
    \/ host_shutdown
    \/ lifespan_shutdown
    \/ mining_scheduler_cancelled

\* The event loop resumes a task that is ready: a store operation returns
\* or raises, a sleep ends, a pending cancellation is delivered, and the
\* lifespan runs its shutdown once the host has asked for it.
FairScheduler ==
    /\ WF_vars(NextCycle)
    /\ WF_vars(lifespan_shutdown)
    /\ WF_vars(mining_scheduler_cancelled)

\* every writer of users' total_earnings and referral_earnings
NextEconomy ==
    \/ NextBalance
    \/ register_user

SpecEconomy == InitEconomy /\ [][NextEconomy]_vars

\* the cycle that credits a token and the handler that quotes its boost
NextPricing ==
    \/ NextCycle
    \/ initialize_payment

SpecPricing == InitPricing /\ [][NextPricing]_vars

\* the handlers that create users and tokens
NextAccounts ==
    \/ register_user
    \/ initialize_payment
    \/ verify_payment
    \/ admin_grant_token_to_user

SpecAccounts == InitAccounts /\ [][NextAccounts]_vars

SpecScheduler == InitScheduler /\ [][NextScheduler]_vars /\ FairScheduler

\* ------------------------------------------------------------ observations
\* process_mining_cycle has returned or raised, and no later cycle has begun
CycleOver == cyc.phase \in {"returned", "raised"}

\* what the current cycle has added to a token and to a user so far
Gain(t) == tokens[t].total_earnings - cyc.tokens_before[t].total_earnings
Entries(t) == Len(tokens[t].mining_history) - cyc.tokens_before[t].entries
Gained(t) == Gain(t) > 0 /\ Entries(t) > 0
UserGain(u) == users[u].total_earnings - cyc.users_before[u]

\* the tokens for which the cycle entered `except Exception as token_error`
Errored == {mining_stats.errors[i] : i \in 1..Len(mining_stats.errors)}

\* the mining log written by the cycle that has just returned
LastLog == mining_logs[Len(mining_logs)]

Ineligible(t) ==
    /\ tokens[t].exists
    /\ \/ ~tokens[t].active
       \/ users[tokens[t].owner_id].exists /\ users[tokens[t].owner_id].is_admin

\* 2^L for the levels the specification lists, the number of subsets of an
\* L-element set for the others
Multiplier(L) ==
    CASE L = 0 -> 1
      [] L = 1 -> 2
      [] L = 2 -> 4
      [] L = 3 -> 8
      [] L = 5 -> 32
      [] L = 10 -> 1024
      [] OTHER -> Cardinality(SUBSET (1..L))

\* ------------------------------------------------------------------ claims
\* C1 as stated: in every cycle that lists tokens, a token gains earnings and
\* a mining-history entry if and only if it was active and not admin-owned
\* when the cycle listed the tokens.
C1_AsStated ==
    (CycleOver /\ cyc.listed) =>
        \A t \in TokenIds : Gained(t) <=> t \in cyc.eligible

\* C1 amended: a token gains earnings and a mining-history entry in a cycle
\* if and only if it was active and not admin-owned when the cycle listed the
\* tokens and the store update of that token did not raise; at no moment has
\* a token gained without having been eligible; a token that is inactive or
\* admin-owned has no earnings and no mining history, after any number of
\* cycles.
C1_Eligibility ==
    /\ \A t \in TokenIds : Gained(t) => t \in cyc.eligible
    /\ (CycleOver /\ cyc.listed) =>
          \A t \in TokenIds :
             Gained(t) <=> (t \in cyc.eligible /\ t \notin cyc.tok_failed)
    /\ \A t \in TokenIds :
          Ineligible(t) => /\ tokens[t].total_earnings = 0
                           /\ tokens[t].mining_history = <<>>

C1_Witness ==
    /\ CycleOver /\ cyc.listed /\ cycles >= 2
    /\ \E t \in cyc.eligible : Gained(t)
    /\ \E t \in cyc.eligible : t \in cyc.tok_failed
    /\ \E t \in TokenIds : Ineligible(t)

\* C2: every token a cycle has credited gained 0.70 * 2^boost_level, with
\* boost_level the level of the token document the cycle listed (multipliers
\* 1, 2, 4, 8, 32, 1024 for levels 0, 1, 2, 3, 5, 10), and the cycle appended
\* exactly one mining-history entry, which records that amount and that level.
C2_EarningFormula ==
    \A i \in 1..Len(tokens_list) :
       LET t == tokens_list[i].token_id
           L == tokens_list[i].boost_level
           h == tokens[t].mining_history
       IN Gain(t) # 0 =>
            /\ Gain(t) = 70 * Multiplier(L)
            /\ Entries(t) = 1
            /\ h[Len(h)] = [amount |-> 70 * Multiplier(L), boost_level |-> L]

C2_Witness ==
    /\ CycleOver
    /\ \E i \in 1..Len(tokens_list) :
          /\ tokens_list[i].boost_level = 10
          /\ Gained(tokens_list[i].token_id)
          /\ tokens_list[i].token_id \in cyc.counted

\* C3 as stated: after a cycle with no concurrent mutation, every owner has
\* gained exactly the sum of the amounts the cycle credited to its eligible
\* tokens.
C3_AsStated ==
    (CycleOver /\ cyc.listed /\ ~cyc.external) =>
        \A u \in UserIds :
           UserGain(u) =
             SumOver({t \in cyc.eligible : tokens[t].owner_id = u},
                     [t \in TokenIds |-> Gain(t)])

\* C4: when exactly one per-token failure happens in a cycle that listed N
\* eligible tokens and wrote its log, the other N-1 tokens are credited and
\* the log shows tokens_processed = N-1, one error and a status other than
\* success; and every mining log with status success belongs to a cycle that
\* caught no per-token exception.
C4_PartialFailure ==
    /\ (cyc.phase = "returned" /\ cyc.listed /\ ~cyc.log_raised
        /\ cyc.caught = 1) =>
          LET N == Cardinality(cyc.eligible)
              failed == cyc.tok_failed \cup cyc.own_failed
          IN /\ Cardinality(failed) = 1
             /\ Errored = failed
             /\ \A t \in cyc.eligible \ failed : Gained(t)
             /\ LastLog.tokens_processed = N - 1
             /\ LastLog.errors_count = 1
             /\ LastLog.status # "success"
    /\ \A i \in 1..Len(mining_logs) :
          mining_logs[i].status = "success" => log_caught[i] = 0

C4_Witness ==
    /\ cyc.phase = "returned" /\ cyc.listed /\ ~cyc.log_raised
    /\ cyc.caught = 1
    /\ Cardinality(cyc.eligible) >= 2
    /\ LastLog.status = "partial_success"

\* C5 as stated: every invocation of the cycle adds exactly one mining log.
C5_AsStated ==
    CycleOver => Len(mining_logs) = cyc.logs_before + 1

\* C6 as stated: the log a cycle writes counts the tokens whose
\* total_earnings the cycle incremented and sums those increments.
C6_AsStated ==
    cyc.phase = "returned" =>
        /\ LastLog.tokens_processed =
              Cardinality({t \in TokenIds : Gain(t) > 0})
        /\ LastLog.total_earnings_distributed =
              SumOver(TokenIds, [t \in TokenIds |-> Gain(t)])

\* C7 as stated: a token that was credited while its owner was not is
\* recorded as a per-token error and is not counted in tokens_processed.
C7_AsStated ==
    CycleOver =>
        \A t \in TokenIds :
           (Gain(t) > 0 /\ t \notin cyc.own_credited) =>
               (t \in Errored /\ t \notin cyc.counted)

\* C8: the step in which the "mining completed" notification fails leaves
\* all tokens and users as they are, records no error, counts the token as
\* processed and goes on to the next token or to the log; a token whose
\* notification failed keeps its credit and its owner's.
NotificationFails ==
    pc = "notify" /\ cyc'.notif_failed \ cyc.notif_failed # {}

C8_NotificationSwallowed ==
    /\ [](\A t \in cyc.notif_failed :
             /\ Gained(t)
             /\ t \in cyc.own_credited
             /\ t \in cyc.counted
             /\ t \notin Errored)
    /\ [][NotificationFails =>
            /\ tokens' = tokens
            /\ users' = users
            /\ mining_stats'.errors = mining_stats.errors
            /\ mining_stats'.tokens_processed = mining_stats.tokens_processed + 1
            /\ pc' \in {"token_update", "write_log"}]_vars

C8_Witness ==
    /\ cyc.phase = "returned"
    /\ cyc.notif_failed # {}
    /\ LastLog.status = "success"

\* C9: whatever the interleaving of the cycle's store operations with the
\* send-balance and complete-task handlers, every user's total_earnings is
\* its initial value, 0, plus the sum of the increments the two sides have
\* issued to it: none is lost, none is applied twice.
C9_NoLostIncrement ==
    \A u \in UserIds : users[u].total_earnings = applied[u]

C9_Witness ==
    /\ CycleOver /\ cyc.external
    /\ cyc.own_credited # {}
    /\ calls.gift > 0 /\ gift.pc = "idle"
    /\ calls.task > 0 /\ tc.pc = "idle"
    /\ users["u1"].total_earnings >= 70 + 100 + 50

\* C10: in every state each token's total_earnings is the sum of the amounts
\* of its mining_history, and only the cycle's token update changes a
\* token's total_earnings or mining_history.
C10_HistorySum ==
    /\ [](\A t \in TokenIds :
             tokens[t].total_earnings = SumAmounts(tokens[t].mining_history))
    /\ [][\A t \in TokenIds :
             (\/ tokens'[t].total_earnings # tokens[t].total_earnings
              \/ tokens'[t].mining_history # tokens[t].mining_history)
             => (pc = "token_update" /\ tokens_list[idx].token_id = t)]_vars

C10_Witness ==
    \E t \in TokenIds :
       /\ Len(tokens[t].mining_history) >= 2
       /\ tokens[t].boost_history # <<>>
       /\ cyc.tok_failed # {}

\* ------------------------------------------------- claims on the scheduler
\* the scheduler task has started and has not ended
Alive == pc \notin {"boot", "stopped", "aborted"}

\* the scheduler task has ended
Ended == pc \in {"stopped", "aborted"}

\* task.cancel() has been called and the CancelledError is not yet delivered
CancelPending == pc \in {"sleep_cancel", "backoff_cancel"}

\* C11 as stated: after a cycle that could not list the tokens and wrote a
\* MiningLog with status failed, the scheduler is in its backoff sleep, not
\* in the 7200-second sleep.
C11_AsStated ==
    (cyc.phase = "returned" /\ ~cyc.listed /\ LastLog.status = "failed")
        => pc # "sleep"

\* C12: the step in which an exception escapes a cycle leaves the scheduler
\* Running and in its backoff sleep; the scheduler task ends only after a
\* shutdown was asked for; and every backoff sleep within the first
\* MaxCycles cycles is followed by another invocation of the cycle, unless a
\* shutdown is asked for.
C12_ErrorNeverTerminates ==
    /\ [][(cyc'.phase = "raised" /\ cyc.phase # "raised")
            => (is_running' /\ pc' = "backoff")]_vars
    /\ [](Ended => stopping)
    /\ ((pc = "backoff" /\ cycles < MaxCycles) ~> (pc = "list" \/ stopping))

C12_Witness ==
    /\ cyc.retry
    /\ cyc.phase = "running"
    /\ is_running
    /\ ~stopping

\* C13: a cancellation pending at either sleep ends the task in the next
\* step of the scheduler, without another cycle being started, and a task
\* that has ended has is_running = false and starts no cycle.
C13_CancelWhileSleeping ==
    /\ [](Ended => ~is_running)
    /\ [][CancelPending => (pc' \in {"stopped", "aborted"}
                            /\ cycles' = cycles)]_vars
    /\ [][Ended => (pc' = pc /\ cycles' = cycles)]_vars
    /\ (CancelPending ~> Ended)

C13_Witness ==
    /\ pc = "aborted"
    /\ ~is_running
    /\ cycles >= 2

\* C14 as stated: when a shutdown request arrived while a cycle was in
\* progress, the cancellation is delivered only after that cycle has gone
\* through its whole per-token loop and has written its MiningLog record.
C14_AsStated ==
    ((CancelPending \/ Ended) /\ cyc.signalled) =>
        /\ CycleOver
        /\ cyc.listed => idx = Len(tokens_list) + 1
        /\ Len(mining_logs) = cyc.logs_before + 1

\* C15: the scheduler never sleeps before its first cycle, it is Running
\* from its first step on, and with no other action than its own it reaches
\* the first invocation of the cycle.
C15_StartsAutomatically ==
    /\ [](cycles = 0 => pc \in {"boot", "loop"})
    /\ []((cycles = 0 /\ pc = "loop") => is_running)
    /\ <>(is_running /\ cycles = 1 /\ pc = "list")

C15_Witness ==
    /\ pc = "sleep"
    /\ cycles = 1
    /\ is_running
    /\ ~stopping
    /\ Len(mining_logs) = 1

\* C16 as stated: the reported mining status is active exactly when the
\* scheduler task has started and has not ended.
C16_AsStated ==
    (mining_status(is_running) = "active") <=> Alive

\* C16 amended: the reported status is active only while the scheduler task
\* is alive, it is inactive once the task has ended, whichever way, and it
\* is inactive while the task is alive only between the shutdown's
\* stop_mining() and the end of the task.
C16_StatusSurface ==
    /\ (mining_status(is_running) = "active") => Alive
    /\ Ended => mining_status(is_running) = "inactive"
    /\ (Alive /\ mining_status(is_running) = "inactive") => CancelPending

C16_Witness ==
    /\ pc = "aborted"
    /\ cyc.phase = "raised"
    /\ mining_status(is_running) = "inactive"

\* --------------------------------------------------- claims on the accounts
\* the last call registered a new user document
Registered(u) ==
    /\ response.op = "register"
    /\ response.user_id = u
    /\ users[u].exists

\* C17 as stated: the registration of a non-admin user returns 200 and
\* leaves the user with tokens_owned >= 1 and an active level-0 token of its
\* own; the registration of the admin leaves the admin without a token.
C17_AsStated ==
    \A u \in UserIds :
       Registered(u) =>
          IF users[u].is_admin
          THEN count_tokens(tokens, u) = 0
          ELSE /\ response.status_code = 200
               /\ users[u].tokens_owned >= 1
               /\ \E t \in TokenIds : /\ tokens[t].exists
                                      /\ tokens[t].owner_id = u
                                      /\ tokens[t].active

\* C18 as stated: a verify_payment call by the paying user, for a reference
\* the gateway reports as paid and that was not processed before, returns
\* 200, marks the transaction success and applies the purchase.
C18_AsStated ==
    (response.op = "verify" /\ response.paid) =>
        LET tx == transactions[response.reference] IN
        /\ response.status_code = 200
        /\ tx.status = "success"
        /\ IF tx.action = "token"
           THEN users[tx.user_id].tokens_owned >= response.before + 1
           ELSE tokens[tx.token_id].boost_level >= response.before + 1

\* C19 as stated: every user's tokens_owned is the number of token
\* documents it owns (every handler of SpecAccounts is one step, so no
\* operation is in progress in any state).
C19_AsStated ==
    \A u \in UserIds :
       users[u].exists => users[u].tokens_owned = count_tokens(tokens, u)

\* C20: every admin's total_earnings and referral_earnings are 0, after any
\* interleaving of cycles, task completions, balance gifts and
\* registrations, with or without a referral code.
C20_AdminExcluded ==
    \A u \in UserIds :
       (users[u].exists /\ users[u].is_admin) =>
          /\ users[u].total_earnings = 0
          /\ users[u].referral_earnings = 0

C20_Witness ==
    /\ CycleOver /\ cyc.counted # {}
    /\ \E t \in TokenIds : tokens[t].exists /\ tokens[t].owner_id = "adm"
    /\ calls.gift > 0 /\ gift.pc = "idle"
    /\ calls.task > 0 /\ tc.pc = "idle"
    /\ response.op = "register" /\ response.user_id = "u2"
    /\ users["u2"].exists
    /\ users["u1"].total_earnings > 0
    /\ users["adm"].exists /\ users["adm"].is_admin

\* ------------------------------------------------ claims on the admin routes
\* C21 as stated: a call of an admin-workspace route by an authenticated
\* non-admin user is answered with 403 and changes no user, token, task or
\* transaction.
C21_AsStated ==
    [][(response' # response /\ response'.op \in AdminRoutes) =>
          /\ response'.status_code = 403
          /\ UNCHANGED <<users, tokens, tasks, transactions>>]_vars

\* ------------------------------------------------- claims on the payments
\* C22: the payback period of a boost is the same at every level: for a
\* token at level L, the amount initialize_payment quotes for its boost,
\* times the 0.70 a cycle credits at level 0, equals the 3.0 quoted at level
\* 0 times the amount the cycle credits to that token.  (No step of
\* SpecPricing changes a boost level, so the token's level is the level of
\* the quote and of every credit.)
C22_ConstantPayback ==
    \A i \in Payments :
       LET p == transactions[i]
           L == tokens[p.token_id].boost_level
           h == tokens[p.token_id].mining_history
       IN p.action = "boost" =>
            /\ p.amount_usd * earning(0) = price(0) * earning(L)
            /\ \A k \in 1..Len(h) : p.amount_usd * 70 = 300 * h[k].amount

C22_Witness ==
    \E i \in Payments :
       /\ transactions[i].action = "boost"
       /\ tokens[transactions[i].token_id].boost_level = MaxBoostLevel
       /\ tokens[transactions[i].token_id].mining_history # <<>>

C24_CycleFrame ==
    [][/\ transactions' = transactions
       /\ tasks' = tasks
       /\ \A t \in TokenIds :
            /\ tokens'[t] =
                 [tokens[t] EXCEPT
                    !.total_earnings = tokens'[t].total_earnings,
                    !.mining_history = tokens'[t].mining_history]
            /\ tokens'[t] # tokens[t] => t \in cyc.eligible
            /\ Ineligible(t) => tokens'[t] = tokens[t]
       /\ \A u \in UserIds :
            /\ users'[u] =
                 [users[u] EXCEPT !.total_earnings = users'[u].total_earnings]
            /\ users'[u] # users[u] =>
                 \E t \in cyc.eligible : tokens[t].owner_id = u]_vars

C24_Witness ==
    /\ CycleOver /\ cyc.listed
    /\ \E t \in cyc.eligible : Gained(t) /\ UserGain(tokens[t].owner_id) > 0
    /\ \E t \in TokenIds : Ineligible(t)
    /\ \E u \in UserIds : notifications[u] > 0
    /\ Len(mining_logs) = cyc.logs_before + 1

TokenPayments(u) ==
    {i \in Payments : transactions[i].user_id = u
                      /\ transactions[i].action = "token"}
BoostPayments(t) ==
    {i \in Payments : transactions[i].action = "boost"
                      /\ transactions[i].token_id = t}

C27_AsStated ==
    tasks.type = "one_time" =>
       \A u \in UserIds : users[u].total_earnings <= tasks.reward

\* ------------------------------------------- claims on failed registration
\* C28 as stated: a registration call that returns an error leaves no user
\* document for the submitted address (the call was made for an address
\* that had none: register_user answers 400 without a write otherwise).
C28_AsStated ==
    (response.op = "register" /\ response.status_code >= 400) =>
        ~users[response.user_id].exists

\* ------------------------------------------------ claims on the failed log
\* C29 as stated: the mining log of a cycle has status failed only if the
\* cycle credited no token and no user, and it reports a non-zero
\* tokens_processed if the cycle applied any credit.
C29_AsStated ==
    (CycleOver /\ Len(mining_logs) = cyc.logs_before + 1) =>
       LET credited == \/ \E t \in TokenIds : Gain(t) > 0
                       \/ \E u \in UserIds : UserGain(u) > 0
       IN /\ LastLog.status = "failed" => ~credited
          /\ credited => LastLog.tokens_processed > 0

\* ------------------------------------------- claims on the recorded level
\* C30 as stated: whenever a cycle appends a mining-history entry to a
\* token, the boost_level the entry records, and the one its amount was
\* computed from, is the boost_level the token document holds at that
\* moment, for any interleaving of the cycle with a boost of the token.
C30_AsStated ==
    [][\A t \in TokenIds :
          Len(tokens'[t].mining_history) > Len(tokens[t].mining_history) =>
             LET h == tokens'[t].mining_history
             IN /\ h[Len(h)].boost_level = tokens[t].boost_level
                /\ h[Len(h)].amount = earning(tokens[t].boost_level)]_vars

====
